---- MODULE Spec2Model ----
(***************************************************************************)
(* DNS Activity Analyzer (alternate-dns-analyzer.tsx).                     *)
(*                                                                         *)
(* A JavaScript string is modelled as the sequence of its characters, each *)
(* character a one-character TLA+ string, so that split, slice, join and   *)
(* endsWith are computed on characters as the code computes them.          *)
(* A JavaScript value is a record [t, s]: t is its kind ("null",           *)
(* "undefined", "number", "string") and s its characters.                  *)
(***************************************************************************)
EXTENDS Integers, Sequences, FiniteSets, TLC

\* a call of extractBaseDomain or processData: arguments, result, position
VARIABLES queryValue, baseDomain, data, analysis, pc

\* the normalized log records of the preprocessing engine and the device
\* table it derives from them
VARIABLES normalizedRecords, devices

\* the useState cells of DNSAnalyzer
VARIABLES fileData, isLoading, error, analysisResults, activeView, searchTerm,
          sortField, sortDirection, selectedIP, selectedDomain, fileInput

\* the loads in flight (readFile promise, FileReader), the number of loads
\* started so far, the load the current results came from, whether React has
\* rendered the current state, and the table rows of the last render
VARIABLES pending, started, loadedFrom, rendered, filteredData

callVars == <<queryValue, baseDomain, data, analysis, pc, normalizedRecords, devices>>

stateVars ==
    <<fileData, isLoading, error, analysisResults, activeView, searchTerm,
      sortField, sortDirection, selectedIP, selectedDomain, fileInput>>

envVars == <<pending, started, loadedFrom, rendered, filteredData>>

vars == <<callVars, stateVars, envVars>>

(* ------------------------------ bounds --------------------------------- *)

\* longest enumerated query string over Alphabet
MaxLen == 4

\* longest enumerated input row sequence handed to processData
MaxRows == 4

\* loads started in one run: the load at mount and the uploads after it
MaxLoads == 3

\* longest enumerated record stream handed to the device aggregation
MaxRecords == 3

(* --------------------------- JavaScript values ------------------------- *)

Null == [t |-> "null", s |-> <<>>]

\* the value of a column a short row does not have
Undefined == [t |-> "undefined", s |-> <<>>]

Str(chars) == [t |-> "string", s |-> chars]

Num(digits) == [t |-> "number", s |-> digits]

\* thrown by a method call on a value that has no such method
TypeError == [t |-> "TypeError", s |-> <<>>]

\* ToBoolean: null/undefined, "" and 0 are falsy
Truthy(v) ==
    \/ v.t = "string" /\ v.s # <<>>
    \/ v.t = "number" /\ v.s # <<"0">>

\* ToPropertyKey, as lodash applies it to the grouping value
ToKey(v) ==
    IF v.t = "null" THEN <<"n", "u", "l", "l">>
    ELSE IF v.t = "undefined" THEN <<"u", "n", "d", "e", "f", "i", "n", "e", "d">>
    ELSE v.s

(* ------------------------- String.prototype ---------------------------- *)

EndsWith(str, suffix) ==
    /\ Len(suffix) <= Len(str)
    /\ SubSeq(str, Len(str) - Len(suffix) + 1, Len(str)) = suffix

\* str.split("."): the pieces between the dots, empty pieces included
RECURSIVE Split(_)
Split(str) ==
    IF \A i \in 1..Len(str) : str[i] # "."
    THEN <<str>>
    ELSE LET i == CHOOSE j \in 1..Len(str) :
                     /\ str[j] = "."
                     /\ \A k \in 1..(j - 1) : str[k] # "."
         IN  <<SubSeq(str, 1, i - 1)>> \o Split(SubSeq(str, i + 1, Len(str)))

\* mutant of SliceLast2: slice(0, 2), the first two labels
SliceLast2_first2(parts) ==
    IF Len(parts) <= 2 THEN parts ELSE SubSeq(parts, 1, 2)

\* parts.slice(-2)
SliceLast2(parts) ==
    IF Len(parts) <= 2 THEN parts ELSE SubSeq(parts, Len(parts) - 1, Len(parts))

\* parts.join(".")
RECURSIVE Join(_)
Join(parts) ==
    IF Len(parts) = 0 THEN <<>>
    ELSE IF Len(parts) = 1 THEN parts[1]
    ELSE parts[1] \o <<".">> \o Join(Tail(parts))

InAddrArpa == <<".", "i", "n", "-", "a", "d", "d", "r", ".", "a", "r", "p", "a">>

Ip6Arpa == <<".", "i", "p", "6", ".", "a", "r", "p", "a">>

(* --------------------------- extractBaseDomain ------------------------- *)

\* mutant of extractBaseDomain: the reverse-DNS branch keeps three labels
extractBaseDomain_slice3(v) ==
    IF ~Truthy(v) THEN Null
    ELSE IF v.t # "string" THEN TypeError
    ELSE IF EndsWith(v.s, InAddrArpa) \/ EndsWith(v.s, Ip6Arpa)
         THEN LET parts == Split(v.s)
              IN  Str(Join(SubSeq(parts, Len(parts) - 2, Len(parts))))
    ELSE LET parts == Split(v.s)
         IN  IF Len(parts) >= 2 THEN Str(Join(SliceLast2(parts))) ELSE v

extractBaseDomain(v) ==
    IF ~Truthy(v) THEN Null
    ELSE IF v.t # "string" THEN TypeError
    ELSE IF EndsWith(v.s, InAddrArpa) \/ EndsWith(v.s, Ip6Arpa)
         THEN Str(Join(SliceLast2(Split(v.s))))
    ELSE LET parts == Split(v.s)
         IN  IF Len(parts) >= 2 THEN Str(Join(SliceLast2(parts))) ELSE v

(* ------------------------------ lodash --------------------------------- *)

\* own keys of the object lodash builds, in insertion order (Object.entries
\* order: the input strings are never array-index-like, because Papa's
\* dynamicTyping turns every numeric field into a number, and processData
\* keeps string fields only)
KeyOrder(coll, field) ==
    LET F[i \in 0..Len(coll)] ==
            IF i = 0 THEN <<>>
            ELSE LET k == ToKey(coll[i][field])
                 IN  IF \E j \in 1..Len(F[i - 1]) : F[i - 1][j] = k
                     THEN F[i - 1]
                     ELSE Append(F[i - 1], k)
    IN  F[Len(coll)]

\* Object.entries(_.groupBy(coll, field))
groupBy(coll, field) ==
    LET keys == KeyOrder(coll, field)
    IN  [n \in 1..Len(keys) |->
            [key |-> keys[n],
             value |-> SelectSeq(coll, LAMBDA r : ToKey(r[field]) = keys[n])]]

\* Object.entries(_.countBy(coll, field))
countBy(coll, field) ==
    LET keys == KeyOrder(coll, field)
    IN  [n \in 1..Len(keys) |->
            [key |-> keys[n],
             value |-> Len(SelectSeq(coll, LAMBDA r : ToKey(r[field]) = keys[n]))]]

(* ------------------------- Array.prototype.sort ------------------------ *)

\* one step of a stable descending sort: x goes behind every element whose
\* number is not smaller
InsertDesc(sorted, x, field) ==
    LET n == Cardinality({j \in 1..Len(sorted) : sorted[j][field] >= x[field]})
    IN  SubSeq(sorted, 1, n) \o <<x>> \o SubSeq(sorted, n + 1, Len(sorted))

\* arr.sort((a, b) => b[field] - a[field]); Array.prototype.sort is stable
SortDesc(arr, field) ==
    LET F[i \in 0..Len(arr)] ==
            IF i = 0 THEN <<>> ELSE InsertDesc(F[i - 1], arr[i], field)
    IN  F[Len(arr)]

(* ------------------------------ processData ---------------------------- *)

Row(qv, ip, qt) ==
    ("Query Value" :> qv) @@ ("Client IP" :> ip) @@ ("Query Type" :> qt)

\* mutant of isValid: the typeof checks without the truthiness checks
isValid_typeOnly(row) ==
    /\ row["Query Value"].t = "string"
    /\ row["Client IP"].t = "string"

\* the filter callback of validData
isValid(row) ==
    /\ Truthy(row["Query Value"])
    /\ Truthy(row["Client IP"])
    /\ row["Query Value"].t = "string"
    /\ row["Client IP"].t = "string"

validData(rows) == SelectSeq(rows, isValid)

enrichedData(rows) ==
    LET valid == validData(rows)
    IN  [i \in 1..Len(valid) |->
            valid[i] @@ ("baseDomain" :> extractBaseDomain(valid[i]["Query Value"]))]

\* .map(([domain, count]) => ({ domain, count })).sort(...)
domainList(counts) ==
    SortDesc([i \in 1..Len(counts) |->
                 [domain |-> counts[i].key, count |-> counts[i].value]], "count")

\* .map(([ip, count]) => ({ ip, count })).sort(...)
ipList(counts) ==
    SortDesc([i \in 1..Len(counts) |->
                 [ip |-> counts[i].key, count |-> counts[i].value]], "count")

\* mutant of ipDomainCounts: totalQueries counts the distinct domains
ipDomainCounts_uniqueAsTotal(enriched) ==
    LET ipToDomains == groupBy(enriched, "Client IP")
    IN  [i \in 1..Len(ipToDomains) |->
            LET rows == ipToDomains[i].value
                domainCounts == countBy(rows, "baseDomain")
            IN  [ip |-> ipToDomains[i].key,
                 uniqueDomains |-> Len(domainCounts),
                 totalQueries |-> Len(domainCounts),
                 domains |-> domainList(domainCounts)]]

\* ipDomainCounts before the final sort
ipDomainCounts(enriched) ==
    LET ipToDomains == groupBy(enriched, "Client IP")
    IN  [i \in 1..Len(ipToDomains) |->
            LET rows == ipToDomains[i].value
                domainCounts == countBy(rows, "baseDomain")
            IN  [ip |-> ipToDomains[i].key,
                 uniqueDomains |-> Len(domainCounts),
                 totalQueries |-> Len(rows),
                 domains |-> domainList(domainCounts)]]

\* mutant of domainIPCounts: grouped by the full query name
domainIPCounts_byQueryValue(enriched) ==
    LET domainToIPs == groupBy(enriched, "Query Value")
    IN  [i \in 1..Len(domainToIPs) |->
            LET rows == domainToIPs[i].value
                ipCounts == countBy(rows, "Client IP")
            IN  [domain |-> domainToIPs[i].key,
                 uniqueIPs |-> Len(ipCounts),
                 totalQueries |-> Len(rows),
                 ips |-> ipList(ipCounts)]]

\* domainIPCounts before the final sort
domainIPCounts(enriched) ==
    LET domainToIPs == groupBy(enriched, "baseDomain")
    IN  [i \in 1..Len(domainToIPs) |->
            LET rows == domainToIPs[i].value
                ipCounts == countBy(rows, "Client IP")
            IN  [domain |-> domainToIPs[i].key,
                 uniqueIPs |-> Len(ipCounts),
                 totalQueries |-> Len(rows),
                 ips |-> ipList(ipCounts)]]

\* .filter(([type]) => type !== "null" && type !== null)
\* .map(([type, count]) => ({ name: type || "Unknown", value: count }))
queryTypeData(enriched) ==
    LET queryTypeCounts == countBy(enriched, "Query Type")
        kept == SelectSeq(queryTypeCounts,
                          LAMBDA e : e.key # <<"n", "u", "l", "l">>)
    IN  [i \in 1..Len(kept) |->
            [name |-> IF kept[i].key # <<>> THEN kept[i].key
                      ELSE <<"U", "n", "k", "n", "o", "w", "n">>,
             value |-> kept[i].value]]

\* mutant of processData: totalRecords counts the rows before the filter
processData_rawTotal(rows) ==
    LET enriched == enrichedData(rows)
        domainCounts == countBy(enriched, "baseDomain")
        ipCounts == countBy(enriched, "Client IP")
    IN  [summary |-> [totalRecords |-> Len(rows),
                      uniqueDomains |-> Len(domainCounts),
                      uniqueIPs |-> Len(ipCounts),
                      queryTypes |-> queryTypeData(enriched)],
         topDomains |-> domainList(domainCounts),
         topIPs |-> ipList(ipCounts),
         ipDomainCounts |-> SortDesc(ipDomainCounts(enriched), "totalQueries"),
         domainIPCounts |-> SortDesc(domainIPCounts(enriched), "totalQueries")]

processData(rows) ==
    LET enriched == enrichedData(rows)
        domainCounts == countBy(enriched, "baseDomain")
        ipCounts == countBy(enriched, "Client IP")
    IN  [summary |-> [totalRecords |-> Len(enriched),
                      uniqueDomains |-> Len(domainCounts),
                      uniqueIPs |-> Len(ipCounts),
                      queryTypes |-> queryTypeData(enriched)],
         topDomains |-> domainList(domainCounts),
         topIPs |-> ipList(ipCounts),
         ipDomainCounts |-> SortDesc(ipDomainCounts(enriched), "totalQueries"),
         domainIPCounts |-> SortDesc(domainIPCounts(enriched), "totalQueries")]

(* ------------------------------- inputs -------------------------------- *)

Alphabet == {"a", "b", "."}

RECURSIVE StringsUpTo(_)
StringsUpTo(n) ==
    IF n = 0 THEN {<<>>}
    ELSE LET shorter == StringsUpTo(n - 1)
         IN  shorter \cup {Append(str, c) : str \in shorter, c \in Alphabet}

\* "44.8.0.10.in-addr.arpa"
ReverseSample == <<"4", "4", ".", "8", ".", "0", ".", "1", "0">> \o InAddrArpa

\* "a.b.example.com"
SubdomainSample ==
    <<"a", ".", "b", ".", "e", "x", "a", "m", "p", "l", "e", ".", "c", "o", "m">>

\* "localhost"
SingleLabelSample == <<"l", "o", "c", "a", "l", "h", "o", "s", "t">>

\* the query values extractBaseDomain is applied to: absent, empty, numeric
\* (a cell dynamicTyping converted), every string over Alphabet of at most
\* MaxLen characters, short strings carrying a reverse-DNS suffix, and the
\* sample names
QueryValues ==
    {Null, Undefined, Num(<<"7">>), Num(<<"0">>)}
      \cup {Str(str) : str \in StringsUpTo(MaxLen)}
      \cup {Str(str \o InAddrArpa) : str \in StringsUpTo(2)}
      \cup {Str(str \o Ip6Arpa) : str \in StringsUpTo(2)}
      \cup {Str(Tail(InAddrArpa)), Str(Tail(Ip6Arpa))}
      \cup {Str(ReverseSample), Str(SubdomainSample), Str(SingleLabelSample)}

IP1 == Str(<<"1", "0", ".", "0", ".", "0", ".", "1">>)

IP2 == Str(<<"1", "0", ".", "0", ".", "0", ".", "2">>)

TypeA == Str(<<"A">>)

\* the rows a parsed CSV file is made of
Rows ==
    { Row(Str(<<"a", ".", "b">>), IP1, TypeA),
      Row(Str(<<"c", ".", "a", ".", "b">>), IP2, TypeA),
      Row(Str(<<"b", ".", "a">>), IP1, Null),
      Row(Str(<<"b", ".", "a">>), IP2, TypeA),
      Row(Str(<<"a">>), IP2, Undefined),
      Row(Null, IP1, TypeA),
      Row(Str(<<"a", ".", "b">>), Undefined, TypeA),
      Row(Str(<<>>), IP2, TypeA),
      Row(Num(<<"7">>), IP1, TypeA),
      Row(Str(<<"b", ".", "a">>), Num(<<"7">>), TypeA) }

RECURSIVE RowSeqs(_)
RowSeqs(n) ==
    IF n = 0 THEN {<<>>}
    ELSE LET shorter == RowSeqs(n - 1)
         IN  shorter \cup {Append(rs, r) : rs \in shorter, r \in Rows}

(* ------------------------------ DNSAnalyzer ---------------------------- *)

\* an array held in a state cell
Arr(items) == [t |-> "object", s |-> items]

\* the component after construction: the useState defaults, and the load
\* that the mount effect started (setIsLoading(true), readFile in flight)
Mounted ==
    /\ fileData = Null
    /\ isLoading = TRUE
    /\ error = Null
    /\ analysisResults = Null
    /\ activeView = "overview"
    /\ searchTerm = <<>>
    /\ sortField = "totalQueries"
    /\ sortDirection = "desc"
    /\ selectedIP = Null
    /\ selectedDomain = Null
    /\ fileInput = Null
    /\ pending = {[id |-> 1, kind |-> "initial", file |-> Null]}
    /\ started = 1
    /\ loadedFrom = 0
    /\ rendered = TRUE
    /\ filteredData = <<>>

(* ------------------------- DNSAnalyzer: inputs ------------------------- *)

\* the files the user can pick, and the contents readFile can return
Files ==
    { [name |-> Str(<<"a", ".", "c", "s", "v">>),
       rows |-> << Row(Str(<<"a", ".", "b">>), IP1, TypeA),
                   Row(Str(<<"c", ".", "a", ".", "b">>), IP2, TypeA),
                   Row(Null, IP1, TypeA) >>],
      [name |-> Str(<<"b", ".", "c", "s", "v">>),
       rows |-> << Row(Str(<<"b", ".", "a">>), IP1, Null),
                   Row(Str(<<"b", ".", "a">>), IP2, TypeA),
                   Row(Str(<<"a">>), IP2, Undefined) >>] }

\* what the user can type into the search box
SearchTerms == {<<>>, <<"2">>, <<"B">>}

Views == {"overview", "ips", "domains", "network"}

ParseErrorMessage == Str(<<"Error parsing CSV: ">>)

LoadErrorMessage == Str(<<"Error loading file: ">>)

ReadErrorMessage == Str(<<"Error reading the file">>)

(* ----------------------- DNSAnalyzer: list helpers --------------------- *)

\* String.prototype.toLowerCase on the characters that occur
ToLowerCase(str) ==
    [i \in 1..Len(str) |->
        CASE str[i] = "A" -> "a"
          [] str[i] = "B" -> "b"
          [] str[i] = "C" -> "c"
          [] str[i] = "D" -> "d"
          [] str[i] = "E" -> "e"
          [] str[i] = "K" -> "k"
          [] str[i] = "L" -> "l"
          [] str[i] = "O" -> "o"
          [] str[i] = "W" -> "w"
          [] OTHER -> str[i]]

\* String.prototype.includes
Includes(str, part) ==
    \E i \in 1..(Len(str) + 1) :
        /\ i + Len(part) - 1 <= Len(str)
        /\ SubSeq(str, i, i + Len(part) - 1) = part

\* the comparator of getFilteredIPData / getFilteredDomainData is negative:
\* a[sortField] - b[sortField] (asc) or b[sortField] - a[sortField] (desc);
\* a field the items do not have gives NaN, which sort takes for 0
ComesBefore(a, b, field, direction) ==
    /\ field \in DOMAIN a
    /\ field \in DOMAIN b
    /\ IF direction = "asc" THEN a[field] < b[field] ELSE b[field] < a[field]

\* one step of the stable sort: x goes behind every element it does not
\* come before
InsertItem(sorted, x, field, direction) ==
    LET n == Cardinality({j \in 1..Len(sorted) :
                              ~ComesBefore(x, sorted[j], field, direction)})
    IN  SubSeq(sorted, 1, n) \o <<x>> \o SubSeq(sorted, n + 1, Len(sorted))

\* arr.sort(comparator)
SortItems(arr, field, direction) ==
    LET F[i \in 0..Len(arr)] ==
            IF i = 0 THEN <<>>
            ELSE InsertItem(F[i - 1], arr[i], field, direction)
    IN  F[Len(arr)]

\* the value getFilteredIPData returns
getFilteredIPData ==
    IF analysisResults = Null THEN <<>>
    ELSE SortItems(SelectSeq(analysisResults.ipDomainCounts,
                             LAMBDA item : Includes(ToLowerCase(item.ip),
                                                    ToLowerCase(searchTerm))),
                   sortField, sortDirection)

\* the value getFilteredDomainData returns
getFilteredDomainData ==
    IF analysisResults = Null THEN <<>>
    ELSE SortItems(SelectSeq(analysisResults.domainIPCounts,
                             LAMBDA item : Includes(ToLowerCase(item.domain),
                                                    ToLowerCase(searchTerm))),
                   sortField, sortDirection)

\* mutant of resultsAfterGetFilteredIPData: sort before filter, so that sort
\* works on the array of analysisResults itself
resultsAfterGetFilteredIPData_inPlace ==
    IF analysisResults = Null THEN Null
    ELSE [analysisResults EXCEPT
              !.ipDomainCounts = SortItems(@, sortField, sortDirection)]

\* analysisResults after a call of getFilteredIPData: filter returns a new
\* array and sort reorders that array, not analysisResults.ipDomainCounts
resultsAfterGetFilteredIPData == analysisResults

\* analysisResults after a call of getFilteredDomainData, likewise
resultsAfterGetFilteredDomainData == analysisResults

\* the third branch of the main render: the dashboard with the upload input
DashboardShown == ~isLoading /\ ~Truthy(error)

\* renderFilters is part of the IP view and of the domain view
FiltersShown == DashboardShown /\ activeView \in {"ips", "domains"}

\* the two sort buttons renderFilters offers
SortButtons ==
    {"totalQueries", IF activeView = "ips" THEN "uniqueDomains" ELSE "uniqueIPs"}

(* ------------------- specification: extractBaseDomain ------------------ *)

InitExtract ==
    /\ queryValue \in QueryValues
    /\ baseDomain = Null
    /\ data = <<>>
    /\ analysis = Null
    /\ pc = "start"
    /\ normalizedRecords = <<>>
    /\ devices = <<>>
    /\ Mounted

ExtractBaseDomain ==
    /\ pc = "start"
    /\ baseDomain' = extractBaseDomain(queryValue)
    /\ pc' = "done"
    /\ UNCHANGED <<queryValue, data, analysis, normalizedRecords, devices, stateVars, envVars>>

NextExtract == ExtractBaseDomain

SpecExtract == InitExtract /\ [][NextExtract]_vars

(* ---------------------- specification: processData --------------------- *)

InitProcess ==
    /\ data \in RowSeqs(MaxRows)
    /\ analysis = Null
    /\ queryValue = Null
    /\ baseDomain = Null
    /\ pc = "start"
    /\ normalizedRecords = <<>>
    /\ devices = <<>>
    /\ Mounted

ProcessData ==
    /\ pc = "start"
    /\ analysis' = processData(data)
    /\ pc' = "done"
    /\ UNCHANGED <<queryValue, baseDomain, data, normalizedRecords, devices, stateVars,
                   envVars>>

NextProcess == ProcessData

SpecProcess == InitProcess /\ [][NextProcess]_vars

(* ------------------------ specification: DNSAnalyzer ------------------- *)

Init ==
    /\ Mounted
    /\ queryValue = Null
    /\ baseDomain = Null
    /\ data = <<>>
    /\ analysis = Null
    /\ pc = "start"
    /\ normalizedRecords = <<>>
    /\ devices = <<>>

\* React renders the state a handler left behind before the next event is
\* handled; the IP view and the domain view compute their table rows
Render ==
    /\ ~rendered
    /\ rendered' = TRUE
    /\ IF DashboardShown /\ activeView = "ips"
       THEN /\ filteredData' = getFilteredIPData
            /\ analysisResults' = resultsAfterGetFilteredIPData
       ELSE IF DashboardShown /\ activeView = "domains"
       THEN /\ filteredData' = getFilteredDomainData
            /\ analysisResults' = resultsAfterGetFilteredDomainData
       ELSE /\ filteredData' = <<>>
            /\ UNCHANGED analysisResults
    /\ UNCHANGED <<fileData, isLoading, error, activeView, searchTerm, sortField,
                   sortDirection, selectedIP, selectedDomain, fileInput,
                   pending, started, loadedFrom, callVars>>

\* processData(result.data), tabulated for the contents a load can deliver
AnalysisOf == [rows \in {file.rows : file \in Files} |-> processData(rows)]

\* mutant of Complete: the result is computed before the last row arrived
Complete_partial(load, rows) ==
    /\ fileData' = Arr(rows)
    /\ analysisResults' = processData(SubSeq(rows, 1, Len(rows) - 1))
    /\ isLoading' = FALSE
    /\ pending' = pending \ {load}
    /\ loadedFrom' = load.id
    /\ rendered' = FALSE
    /\ UNCHANGED <<error, activeView, searchTerm, sortField, sortDirection,
                   selectedIP, selectedDomain, fileInput, started, filteredData,
                   callVars>>

\* the complete callback of Papa.parse, in loadInitialData and in
\* handleFileUpload alike
Complete(load, rows) ==
    /\ fileData' = Arr(rows)
    /\ analysisResults' = AnalysisOf[rows]
    /\ isLoading' = FALSE
    /\ pending' = pending \ {load}
    /\ loadedFrom' = load.id
    /\ rendered' = FALSE
    /\ UNCHANGED <<error, activeView, searchTerm, sortField, sortDirection,
                   selectedIP, selectedDomain, fileInput, started, filteredData,
                   callVars>>

\* mutant of Fail: setIsLoading(false) left out
Fail_keepsLoading(load, message) ==
    /\ error' = message
    /\ UNCHANGED isLoading
    /\ pending' = pending \ {load}
    /\ rendered' = FALSE
    /\ UNCHANGED <<fileData, analysisResults, activeView, searchTerm, sortField,
                   sortDirection, selectedIP, selectedDomain, fileInput, started,
                   loadedFrom, filteredData, callVars>>

\* the paths that end a load without a result: setError, setIsLoading(false)
Fail(load, message) ==
    /\ error' = message
    /\ isLoading' = FALSE
    /\ pending' = pending \ {load}
    /\ rendered' = FALSE
    /\ UNCHANGED <<fileData, analysisResults, activeView, searchTerm, sortField,
                   sortDirection, selectedIP, selectedDomain, fileInput, started,
                   loadedFrom, filteredData, callVars>>

\* loadInitialData: readFile resolved and the parse completed
InitialLoadComplete ==
    /\ rendered
    /\ \E load \in pending, file \in Files :
           load.kind = "initial" /\ Complete(load, file.rows)

\* mutant of InitialLoadCatch: the catch branch swallows the failure
InitialLoadCatch_silent ==
    /\ rendered
    /\ \E load \in pending :
           /\ load.kind = "initial"
           /\ isLoading' = FALSE
           /\ pending' = pending \ {load}
           /\ rendered' = FALSE
           /\ UNCHANGED <<error, fileData, analysisResults, activeView, searchTerm,
                          sortField, sortDirection, selectedIP, selectedDomain,
                          fileInput, started, loadedFrom, filteredData, callVars>>

\* loadInitialData: readFile rejected, the catch branch
InitialLoadCatch ==
    /\ rendered
    /\ \E load \in pending :
           load.kind = "initial" /\ Fail(load, LoadErrorMessage)

\* loadInitialData: the error callback of Papa.parse
InitialLoadParseError ==
    /\ rendered
    /\ \E load \in pending :
           load.kind = "initial" /\ Fail(load, ParseErrorMessage)

\* mutant of HandleFileUpload: setIsLoading(true) left out
HandleFileUpload_notLoading ==
    /\ rendered
    /\ DashboardShown
    /\ started < MaxLoads
    /\ \E file \in Files :
           /\ fileInput' = file.name
           /\ UNCHANGED isLoading
           /\ started' = started + 1
           /\ pending' = pending \cup
                  {[id |-> started + 1, kind |-> "upload", file |-> file]}
    /\ rendered' = FALSE
    /\ UNCHANGED <<fileData, error, analysisResults, activeView, searchTerm,
                   sortField, sortDirection, selectedIP, selectedDomain,
                   loadedFrom, filteredData, callVars>>

\* handleFileUpload: the change event of the file input with a file chosen
\* (without one the handler returns at once and nothing changes)
HandleFileUpload ==
    /\ rendered
    /\ DashboardShown
    /\ started < MaxLoads
    /\ \E file \in Files :
           /\ fileInput' = file.name
           /\ isLoading' = TRUE
           /\ started' = started + 1
           /\ pending' = pending \cup
                  {[id |-> started + 1, kind |-> "upload", file |-> file]}
    /\ rendered' = FALSE
    /\ UNCHANGED <<fileData, error, analysisResults, activeView, searchTerm,
                   sortField, sortDirection, selectedIP, selectedDomain,
                   loadedFrom, filteredData, callVars>>

\* reader.onerror
ReaderOnerror ==
    /\ rendered
    /\ \E load \in pending :
           load.kind = "upload" /\ Fail(load, ReadErrorMessage)

\* reader.onload, the parse completed
ReaderOnloadComplete ==
    /\ rendered
    /\ \E load \in pending :
           load.kind = "upload" /\ Complete(load, load.file.rows)

\* reader.onload, the error callback of Papa.parse
ReaderOnloadParseError ==
    /\ rendered
    /\ \E load \in pending :
           load.kind = "upload" /\ Fail(load, ParseErrorMessage)

\* the four view buttons
SetActiveView ==
    /\ rendered
    /\ DashboardShown
    /\ \E view \in Views \ {activeView} : activeView' = view
    /\ rendered' = FALSE
    /\ UNCHANGED <<fileData, isLoading, error, analysisResults, searchTerm,
                   sortField, sortDirection, selectedIP, selectedDomain,
                   fileInput, pending, started, loadedFrom, filteredData,
                   callVars>>

\* the search box of renderFilters
SetSearchTerm ==
    /\ rendered
    /\ FiltersShown
    /\ \E term \in SearchTerms \ {searchTerm} : searchTerm' = term
    /\ rendered' = FALSE
    /\ UNCHANGED <<fileData, isLoading, error, analysisResults, activeView,
                   sortField, sortDirection, selectedIP, selectedDomain,
                   fileInput, pending, started, loadedFrom, filteredData,
                   callVars>>

\* mutant of toggleSort: a new field keeps the direction
toggleSort_keepsDirection(field, currentField, currentDirection) ==
    IF currentField = field
    THEN [sortField |-> currentField,
          sortDirection |-> IF currentDirection = "asc" THEN "desc" ELSE "asc"]
    ELSE [sortField |-> field, sortDirection |-> currentDirection]

\* toggleSort: the sort field and direction it leaves behind, given the
\* sortField and sortDirection of the render the click belongs to
toggleSort(field, currentField, currentDirection) ==
    IF currentField = field
    THEN [sortField |-> currentField,
          sortDirection |-> IF currentDirection = "asc" THEN "desc" ELSE "asc"]
    ELSE [sortField |-> field, sortDirection |-> "desc"]

\* a click on one of the two sort buttons
ToggleSort(field) ==
    /\ rendered
    /\ FiltersShown
    /\ field \in SortButtons
    /\ sortField' = toggleSort(field, sortField, sortDirection).sortField
    /\ sortDirection' = toggleSort(field, sortField, sortDirection).sortDirection
    /\ rendered' = FALSE
    /\ UNCHANGED <<fileData, isLoading, error, analysisResults, activeView,
                   searchTerm, selectedIP, selectedDomain, fileInput, pending,
                   started, loadedFrom, filteredData, callVars>>

\* the View button of a row of the IP table
SetSelectedIP ==
    /\ rendered
    /\ DashboardShown
    /\ activeView = "ips"
    /\ selectedIP = Null
    /\ \E i \in 1..Len(filteredData) : selectedIP' = filteredData[i]
    /\ rendered' = FALSE
    /\ UNCHANGED <<fileData, isLoading, error, analysisResults, activeView,
                   searchTerm, sortField, sortDirection, selectedDomain,
                   fileInput, pending, started, loadedFrom, filteredData,
                   callVars>>

\* Back to IP List
ClearSelectedIP ==
    /\ rendered
    /\ DashboardShown
    /\ activeView = "ips"
    /\ selectedIP # Null
    /\ selectedIP' = Null
    /\ rendered' = FALSE
    /\ UNCHANGED <<fileData, isLoading, error, analysisResults, activeView,
                   searchTerm, sortField, sortDirection, selectedDomain,
                   fileInput, pending, started, loadedFrom, filteredData,
                   callVars>>

\* the View button of a row of the domain table
SetSelectedDomain ==
    /\ rendered
    /\ DashboardShown
    /\ activeView = "domains"
    /\ selectedDomain = Null
    /\ \E i \in 1..Len(filteredData) : selectedDomain' = filteredData[i]
    /\ rendered' = FALSE
    /\ UNCHANGED <<fileData, isLoading, error, analysisResults, activeView,
                   searchTerm, sortField, sortDirection, selectedIP, fileInput,
                   pending, started, loadedFrom, filteredData, callVars>>

\* Back to Domain List
ClearSelectedDomain ==
    /\ rendered
    /\ DashboardShown
    /\ activeView = "domains"
    /\ selectedDomain # Null
    /\ selectedDomain' = Null
    /\ rendered' = FALSE
    /\ UNCHANGED <<fileData, isLoading, error, analysisResults, activeView,
                   searchTerm, sortField, sortDirection, selectedIP, fileInput,
                   pending, started, loadedFrom, filteredData, callVars>>

\* the handlers that end a load
Settle ==
    \/ InitialLoadComplete
    \/ InitialLoadCatch
    \/ InitialLoadParseError
    \/ ReaderOnloadComplete
    \/ ReaderOnerror
    \/ ReaderOnloadParseError

Next ==
    \/ Render
    \/ InitialLoadComplete
    \/ InitialLoadCatch
    \/ InitialLoadParseError
    \/ HandleFileUpload
    \/ ReaderOnloadComplete
    \/ ReaderOnerror
    \/ ReaderOnloadParseError
    \/ SetActiveView
    \/ SetSearchTerm
    \/ \E field \in {"totalQueries", "uniqueDomains", "uniqueIPs"} : ToggleSort(field)
    \/ SetSelectedIP
    \/ ClearSelectedIP
    \/ SetSelectedDomain
    \/ ClearSelectedDomain

Spec == Init /\ [][Next]_vars

\* the browser delivers every pending callback and React every pending
\* render: a settled promise runs its continuation, FileReader fires onload
\* or onerror, Papa.parse on a string calls back before it returns
FairSpec == Spec /\ WF_vars(Render) /\ WF_vars(Settle)

(* --------------- preprocessing engine: the device table ---------------- *)

Blocked == <<"b", "l", "o", "c", "k", "e", "d">>

Allowed == <<"a", "l", "l", "o", "w", "e", "d">>

\* a NextDNS row after parsing, with the status column as exported
LogRecord(ip, domain, rawStatus) ==
    [client_ip |-> ip, base_domain |-> domain, raw_status |-> rawStatus]

\* mutant of normalizeStatus: the exported spelling is compared as it is
normalizeStatus_caseSensitive(rawStatus) ==
    IF rawStatus = Blocked THEN "blocked"
    ELSE IF rawStatus = Allowed THEN "allowed"
    ELSE "unknown"

\* the status column folded case-insensitively into allowed, blocked, unknown
normalizeStatus(rawStatus) ==
    IF ToLowerCase(rawStatus) = Blocked THEN "blocked"
    ELSE IF ToLowerCase(rawStatus) = Allowed THEN "allowed"
    ELSE "unknown"

\* mutant of blockedPercentage: no case for a device without queries
blockedPercentage_unguarded(blockedCount, queryCount) ==
    [n |-> blockedCount * 100, d |-> queryCount]

\* blocked_count / query_count * 100 as the exact fraction n / d, and 0 when
\* query_count is 0
blockedPercentage(blockedCount, queryCount) ==
    IF queryCount = 0 THEN [n |-> 0, d |-> 1]
    ELSE [n |-> blockedCount * 100, d |-> queryCount]

\* the client addresses of a record stream, in order of first appearance
ClientIPs(stream) ==
    LET F[i \in 0..Len(stream)] ==
            IF i = 0 THEN <<>>
            ELSE IF \E j \in 1..Len(F[i - 1]) : F[i - 1][j] = stream[i].client_ip
                 THEN F[i - 1]
                 ELSE Append(F[i - 1], stream[i].client_ip)
    IN  F[Len(stream)]

\* devices: one entry per distinct client_ip
deviceTable(stream) ==
    LET ips == ClientIPs(stream)
    IN  [k \in 1..Len(ips) |->
            LET own == SelectSeq(stream, LAMBDA r : r.client_ip = ips[k])
                blocked == SelectSeq(own,
                               LAMBDA r : normalizeStatus(r.raw_status) = "blocked")
            IN  [ip |-> ips[k],
                 query_count |-> Len(own),
                 unique_domains |-> Cardinality({own[i].base_domain : i \in 1..Len(own)}),
                 blocked_count |-> Len(blocked),
                 blocked_percentage |-> blockedPercentage(Len(blocked), Len(own))]]

\* the records a NextDNS export can contribute
LogRecords ==
    { LogRecord(IP1.s, <<"a", ".", "b">>, Blocked),
      LogRecord(IP1.s, <<"a", ".", "b">>, <<"B", "l", "o", "c", "k", "e", "d">>),
      LogRecord(IP1.s, <<"b", ".", "a">>, <<"B", "L", "O", "C", "K", "E", "D">>),
      LogRecord(IP1.s, <<"b", ".", "a">>, Allowed),
      LogRecord(IP2.s, <<"a", ".", "b">>, <<"B", "l", "o", "c", "k", "e", "d">>),
      LogRecord(IP2.s, <<"a", ".", "b">>, <<"A", "l", "l", "o", "w", "e", "d">>),
      LogRecord(IP2.s, <<"b", ".", "a">>, <<>>),
      LogRecord(IP2.s, <<"b", ".", "a">>, <<"B", "L", "O", "C", "K", "E", "D">>) }

RECURSIVE RecordStreams(_)
RecordStreams(n) ==
    IF n = 0 THEN {<<>>}
    ELSE LET shorter == RecordStreams(n - 1)
         IN  shorter \cup {Append(rs, r) : rs \in shorter, r \in LogRecords}

(* -------------------- specification: the device table ------------------ *)

InitDevices ==
    /\ normalizedRecords \in RecordStreams(MaxRecords)
    /\ devices = <<>>
    /\ queryValue = Null
    /\ baseDomain = Null
    /\ data = <<>>
    /\ analysis = Null
    /\ pc = "start"
    /\ Mounted

AggregateDevices ==
    /\ pc = "start"
    /\ devices' = deviceTable(normalizedRecords)
    /\ pc' = "done"
    /\ UNCHANGED <<queryValue, baseDomain, data, analysis, normalizedRecords, stateVars,
                   envVars>>

NextDevices == AggregateDevices

SpecDevices == InitDevices /\ [][NextDevices]_vars

(* ------------------------ helpers of the properties -------------------- *)

SumOf(seq, field) ==
    LET F[i \in 0..Len(seq)] == IF i = 0 THEN 0 ELSE F[i - 1] + seq[i][field]
    IN  F[Len(seq)]

\* UTF-16 code units of the characters that occur in keys
CharCode ==
    ("." :> 46) @@ ("0" :> 48) @@ ("1" :> 49) @@ ("2" :> 50)
      @@ ("a" :> 97) @@ ("b" :> 98) @@ ("c" :> 99)

\* a < b as JavaScript compares strings
StrLess(a, b) ==
    \E n \in 0..Len(a) :
        /\ n <= Len(b)
        /\ \A i \in 1..n : a[i] = b[i]
        /\ \/ n = Len(a) /\ n < Len(b)
           \/ n < Len(a) /\ n < Len(b) /\ CharCode[a[n + 1]] < CharCode[b[n + 1]]

\* descending by number, equal numbers ascending by name
Ranked(seq, field, name) ==
    \A i \in 1..Len(seq), j \in 1..Len(seq) :
        i < j => \/ seq[i][field] > seq[j][field]
                 \/ /\ seq[i][field] = seq[j][field]
                    /\ StrLess(seq[i][name], seq[j][name])

PermutationsOf(seq) ==
    {[i \in 1..Len(seq) |-> seq[p[i]]] : p \in Permutations(1..Len(seq))}

\* the row has a domain and a client address
HasBoth(row) ==
    /\ row["Query Value"].t = "string" /\ row["Query Value"].s # <<>>
    /\ row["Client IP"].t = "string" /\ row["Client IP"].s # <<>>

\* the row lacks the domain or the client address (absent or empty)
Missing(row) ==
    \/ row["Query Value"].t \in {"null", "undefined"}
    \/ row["Query Value"] = Str(<<>>)
    \/ row["Client IP"].t \in {"null", "undefined"}
    \/ row["Client IP"] = Str(<<>>)

\* positions of the dots of a string
Dots(str) == {i \in 1..Len(str) : str[i] = "."}

\* what follows the last dot but one; the whole string when it has fewer
\* than two dots
AfterSecondLastDot(str) ==
    IF Cardinality(Dots(str)) <= 1 THEN str
    ELSE LET last == CHOOSE i \in Dots(str) : \A j \in Dots(str) : j <= i
             prev == CHOOSE i \in Dots(str) \ {last} :
                         \A j \in Dots(str) \ {last} : j <= i
         IN  SubSeq(str, prev + 1, Len(str))

IsReverse(str) == EndsWith(str, InAddrArpa) \/ EndsWith(str, Ip6Arpa)

\* "example.com"
ExampleCom == <<"e", "x", "a", "m", "p", "l", "e", ".", "c", "o", "m">>

\* the key lodash would give a null base domain
NullKey == <<"n", "u", "l", "l">>

\* the query value is absent or empty
NoQuery(v) == v.t \in {"null", "undefined"} \/ v = Str(<<>>)

\* every domain name that keys a group, a count or a ranking entry
DomainKeys(result) ==
    {result.topDomains[i].domain : i \in 1..Len(result.topDomains)}
      \cup {result.domainIPCounts[i].domain : i \in 1..Len(result.domainIPCounts)}
      \cup UNION {{result.ipDomainCounts[i].domains[k].domain :
                       k \in 1..Len(result.ipDomainCounts[i].domains)} :
                  i \in 1..Len(result.ipDomainCounts)}

\* no two entries of the list carry the same name
UniqueNames(seq, name) ==
    \A i \in 1..Len(seq), j \in 1..Len(seq) : seq[i][name] = seq[j][name] => i = j

(* ------------------------------ properties ----------------------------- *)

\* C1: the per-device query counts (totalQueries over ipDomainCounts) add up
\* to the total record count of the summary.
C1_DeviceCountsSumToTotal ==
    analysis # Null =>
        SumOf(analysis.ipDomainCounts, "totalQueries") = analysis.summary.totalRecords

C1_Witness ==
    /\ analysis # Null
    /\ Len(analysis.ipDomainCounts) = 2
    /\ analysis.summary.totalRecords = 3
    /\ Len(data) = 4

\* C2: rows missing the query domain or the client IP contribute to nothing:
\* the result equals the result for the input without them, and every row
\* that has both is counted.
C2_MissingRowsDropped ==
    analysis # Null =>
        /\ analysis = processData(SelectSeq(data, LAMBDA r : ~Missing(r)))
        /\ analysis.summary.totalRecords = Len(SelectSeq(data, HasBoth))

C2_Witness ==
    /\ analysis # Null
    /\ \E i \in 1..Len(data) : Missing(data[i]) /\ data[i]["Query Value"] = Str(<<>>)
    /\ \E i \in 1..Len(data) : Missing(data[i]) /\ data[i]["Client IP"] = Undefined
    /\ analysis.summary.totalRecords = 2

\* C3: every ranking is sorted descending by count, entries with equal
\* counts ascending by domain name or IP string.
C3_RankingsTieBroken ==
    analysis # Null =>
        /\ Ranked(analysis.topDomains, "count", "domain")
        /\ Ranked(analysis.topIPs, "count", "ip")
        /\ Ranked(analysis.ipDomainCounts, "totalQueries", "ip")
        /\ Ranked(analysis.domainIPCounts, "totalQueries", "domain")
        /\ \A i \in 1..Len(analysis.ipDomainCounts) :
               Ranked(analysis.ipDomainCounts[i].domains, "count", "domain")
        /\ \A i \in 1..Len(analysis.domainIPCounts) :
               Ranked(analysis.domainIPCounts[i].ips, "count", "ip")

\* C4: the result is the same for every permutation of the input rows.
C4_OrderIndependent ==
    analysis # Null =>
        \A perm \in PermutationsOf(data) : processData(perm) = analysis

\* C6: for a non-empty query string the normalizer never fails; it returns
\* the last two dot-separated labels joined by "." when there are at least
\* two labels, and the input unchanged when there is a single label.
C6_LastTwoLabels ==
    (pc = "done" /\ queryValue.t = "string" /\ queryValue.s # <<>>) =>
        /\ baseDomain.t = "string"
        /\ baseDomain.s = AfterSecondLastDot(queryValue.s)
        /\ Dots(queryValue.s) = {} => baseDomain = queryValue
        /\ Dots(queryValue.s) # {} => Cardinality(Dots(baseDomain.s)) = 1
        /\ queryValue = Str(SubdomainSample) => baseDomain = Str(ExampleCom)
        /\ queryValue = Str(SingleLabelSample) => baseDomain = Str(SingleLabelSample)

C6_Witness ==
    /\ pc = "done"
    /\ queryValue = Str(SubdomainSample)
    /\ baseDomain = Str(ExampleCom)

\* C7 as stated: a reverse-DNS query yields the last two labels of the
\* original string, and "44.8.0.10.in-addr.arpa" yields "10.in-addr.arpa".
C7_ReverseSampleKeepsOctet ==
    (pc = "done" /\ queryValue.t = "string" /\ IsReverse(queryValue.s)) =>
        /\ baseDomain = Str(AfterSecondLastDot(queryValue.s))
        /\ queryValue = Str(ReverseSample) =>
               baseDomain = Str(<<"1", "0">> \o InAddrArpa)

\* C7 as amended: a reverse-DNS query yields the last two labels of the
\* original string, which are "in-addr.arpa" or "ip6.arpa";
\* "44.8.0.10.in-addr.arpa" yields "in-addr.arpa".
C7_ReverseYieldsZoneSuffix ==
    (pc = "done" /\ queryValue.t = "string" /\ IsReverse(queryValue.s)) =>
        /\ baseDomain = Str(AfterSecondLastDot(queryValue.s))
        /\ EndsWith(queryValue.s, InAddrArpa) => baseDomain = Str(Tail(InAddrArpa))
        /\ EndsWith(queryValue.s, Ip6Arpa) => baseDomain = Str(Tail(Ip6Arpa))
        /\ queryValue = Str(ReverseSample) => baseDomain = Str(Tail(InAddrArpa))

C7_Witness ==
    /\ pc = "done"
    /\ queryValue = Str(ReverseSample)
    /\ baseDomain = Str(Tail(InAddrArpa))

\* C8: an empty or absent query yields no base domain and its record never
\* reaches aggregation; every aggregated record has a base domain, and no
\* group, count or ranking entry is keyed by a null base domain.
C8_NoNullBaseDomain ==
    analysis # Null =>
        /\ \A i \in 1..Len(data) :
               NoQuery(data[i]["Query Value"]) =>
                   extractBaseDomain(data[i]["Query Value"]) = Null
        /\ analysis.summary.totalRecords
               <= Len(SelectSeq(data, LAMBDA r : ~NoQuery(r["Query Value"])))
        /\ \A i \in 1..Len(enrichedData(data)) :
               /\ enrichedData(data)[i]["baseDomain"].t = "string"
               /\ enrichedData(data)[i]["baseDomain"].s # <<>>
        /\ \A key \in DomainKeys(analysis) :
               /\ key # NullKey
               /\ \E i \in 1..Len(data) :
                      /\ ~NoQuery(data[i]["Query Value"])
                      /\ extractBaseDomain(data[i]["Query Value"]) = Str(key)

C8_Witness ==
    /\ analysis # Null
    /\ \E i \in 1..Len(data) : data[i]["Query Value"] = Null
    /\ \E i \in 1..Len(data) : data[i]["Query Value"] = Str(<<>>)
    /\ Cardinality(DomainKeys(analysis)) = 2

\* C9: the IP-to-domains view and the domain-to-IPs view list the same
\* (ip, domain) pairs with the same counts; in each entry the total is the
\* sum of the listed counts and the unique count is the number of listed
\* counterparts.
C9_ViewsSymmetric ==
    analysis # Null =>
        LET ipView == analysis.ipDomainCounts
            domainView == analysis.domainIPCounts
        IN  /\ UniqueNames(ipView, "ip")
            /\ UniqueNames(domainView, "domain")
            /\ \A i \in 1..Len(ipView) :
                   /\ UniqueNames(ipView[i].domains, "domain")
                   /\ ipView[i].totalQueries = SumOf(ipView[i].domains, "count")
                   /\ ipView[i].uniqueDomains = Len(ipView[i].domains)
                   /\ \A k \in 1..Len(ipView[i].domains) :
                          \E j \in 1..Len(domainView) :
                              /\ domainView[j].domain = ipView[i].domains[k].domain
                              /\ \E m \in 1..Len(domainView[j].ips) :
                                     /\ domainView[j].ips[m].ip = ipView[i].ip
                                     /\ domainView[j].ips[m].count
                                            = ipView[i].domains[k].count
            /\ \A j \in 1..Len(domainView) :
                   /\ UniqueNames(domainView[j].ips, "ip")
                   /\ domainView[j].totalQueries = SumOf(domainView[j].ips, "count")
                   /\ domainView[j].uniqueIPs = Len(domainView[j].ips)
                   /\ \A m \in 1..Len(domainView[j].ips) :
                          \E i \in 1..Len(ipView) :
                              /\ ipView[i].ip = domainView[j].ips[m].ip
                              /\ \E k \in 1..Len(ipView[i].domains) :
                                     /\ ipView[i].domains[k].domain = domainView[j].domain
                                     /\ ipView[i].domains[k].count
                                            = domainView[j].ips[m].count

C9_Witness ==
    /\ analysis # Null
    /\ Len(analysis.ipDomainCounts) = 2
    /\ Len(analysis.domainIPCounts) = 2
    /\ \E i \in 1..2 : Len(analysis.ipDomainCounts[i].domains) = 2
    /\ \E j \in 1..2 : \E m \in 1..Len(analysis.domainIPCounts[j].ips) :
           analysis.domainIPCounts[j].ips[m].count = 2

\* C10: the summary agrees with the tables and with the aggregated records:
\* totalRecords is the sum of the counts of topDomains and of topIPs,
\* uniqueDomains the length of topDomains and of domainIPCounts, uniqueIPs
\* the length of topIPs and of ipDomainCounts.
C10_SummaryAgreesWithTables ==
    analysis # Null =>
        LET summary == analysis.summary
            records == SelectSeq(data, HasBoth)
        IN  /\ summary.totalRecords = SumOf(analysis.topDomains, "count")
            /\ summary.totalRecords = SumOf(analysis.topIPs, "count")
            /\ summary.totalRecords = Len(records)
            /\ summary.uniqueDomains = Len(analysis.topDomains)
            /\ summary.uniqueDomains = Len(analysis.domainIPCounts)
            /\ summary.uniqueDomains
                   = Cardinality({AfterSecondLastDot(records[i]["Query Value"].s) :
                                      i \in 1..Len(records)})
            /\ summary.uniqueIPs = Len(analysis.topIPs)
            /\ summary.uniqueIPs = Len(analysis.ipDomainCounts)
            /\ summary.uniqueIPs
                   = Cardinality({records[i]["Client IP"] : i \in 1..Len(records)})

C10_Witness ==
    /\ analysis # Null
    /\ analysis.summary.uniqueDomains = 3
    /\ analysis.summary.uniqueIPs = 2
    /\ analysis.summary.totalRecords = 3
    /\ Len(data) = 4

\* a step of one of the handlers that search, sort, switch views or select
BrowsingStep ==
    \/ Render
    \/ SetActiveView
    \/ SetSearchTerm
    \/ \E field \in {"totalQueries", "uniqueDomains", "uniqueIPs"} : ToggleSort(field)
    \/ SetSelectedIP
    \/ ClearSelectedIP
    \/ SetSelectedDomain
    \/ ClearSelectedDomain

\* a step of the complete callback of a parse
CompleteStep == InitialLoadComplete \/ ReaderOnloadComplete

\* the entries of a list
Entries(seq) == {seq[i] : i \in 1..Len(seq)}

\* C11: searching, sorting, switching views and selecting or deselecting
\* leave analysisResults unchanged, the order of its lists included; it
\* changes only when a parse completes and a whole new result replaces it.
C11_ResultsNeverMutated ==
    [][/\ BrowsingStep => analysisResults' = analysisResults
       /\ analysisResults' # analysisResults =>
              /\ CompleteStep
              /\ analysisResults' = processData(fileData'.s)]_vars

C11_Witness ==
    /\ rendered
    /\ DashboardShown
    /\ activeView = "ips"
    /\ sortDirection = "asc"
    /\ Len(filteredData) = 2
    /\ filteredData # analysisResults.ipDomainCounts

\* C12: analysisResults is absent or is processData of the complete row set
\* of one fully parsed file, the current fileData; a load in progress, a
\* parse error or a failed read never sets or replaces it.
C12_NoPartialResults ==
    /\ [](analysisResults # Null =>
              /\ fileData # Null
              /\ \E file \in Files : fileData.s = file.rows
              /\ analysisResults = processData(fileData.s))
    /\ [][analysisResults' # analysisResults =>
              /\ ~isLoading'
              /\ error' = error
              /\ pending' # pending]_vars

C12_Witness ==
    /\ analysisResults # Null
    /\ isLoading
    /\ pending # {}
    /\ loadedFrom = 1

\* C13: after one file failed to load, the analysis of a file that loaded
\* is still shown to the user, and another file can still be loaded.
C13_FailureIsLocal ==
    /\ (~isLoading /\ analysisResults # Null) => DashboardShown
    /\ (~isLoading /\ rendered /\ started < MaxLoads) => ENABLED HandleFileUpload

\* C14: every load that was started leaves the loading state: isLoading
\* becomes false and the load is no longer pending.
C14_LoadsFinish ==
    /\ isLoading ~> ~isLoading
    /\ (pending # {}) ~> (pending = {} /\ ~isLoading)

C14_Witness ==
    /\ ~isLoading
    /\ pending = {}
    /\ started = 2
    /\ error = ReadErrorMessage

\* C17 as stated: toggleSort on the current field flips the direction and
\* keeps the field; on another field it sets the field and the direction
\* desc; a second toggle on the same field restores the direction the first
\* one found; searchTerm, activeView, the selection and analysisResults stay.
C17_SecondToggleRestores ==
    [][\A field \in {"totalQueries", "uniqueDomains", "uniqueIPs"} :
           ToggleSort(field) =>
               /\ sortField' = field
               /\ sortField = field =>
                      sortDirection' = IF sortDirection = "asc" THEN "desc" ELSE "asc"
               /\ sortField # field => sortDirection' = "desc"
               /\ toggleSort(field, sortField', sortDirection').sortDirection
                      = sortDirection
               /\ UNCHANGED <<searchTerm, activeView, selectedIP, selectedDomain,
                              analysisResults>>]_vars

\* C17 as amended: as above, but a second toggle restores the direction only
\* when the field was the current sort field; on a field that was not, the
\* two toggles leave the direction asc.
C17_ToggleSort ==
    [][\A field \in {"totalQueries", "uniqueDomains", "uniqueIPs"} :
           ToggleSort(field) =>
               /\ sortField' = field
               /\ sortField = field =>
                      /\ sortDirection' = IF sortDirection = "asc" THEN "desc" ELSE "asc"
                      /\ toggleSort(field, sortField', sortDirection').sortDirection
                             = sortDirection
               /\ sortField # field =>
                      /\ sortDirection' = "desc"
                      /\ toggleSort(field, sortField', sortDirection').sortDirection
                             = "asc"
               /\ toggleSort(field, sortField', sortDirection').sortField = field
               /\ UNCHANGED <<searchTerm, activeView, selectedIP, selectedDomain,
                              analysisResults>>]_vars

C17_Witness ==
    /\ sortField = "uniqueDomains"
    /\ sortDirection = "asc"
    /\ activeView = "ips"
    /\ ~rendered

\* C18: the sort field is a numeric field of the items the active view
\* sorts: totalQueries or uniqueDomains in the IP view, totalQueries or
\* uniqueIPs in the domain view.
C18_SortFieldExists ==
    /\ (DashboardShown /\ activeView = "ips") =>
           sortField \in {"totalQueries", "uniqueDomains"}
    /\ (DashboardShown /\ activeView = "domains") =>
           sortField \in {"totalQueries", "uniqueIPs"}
    /\ \A item \in Entries(filteredData) : sortField \in DOMAIN item

\* C19: a selected IP is an entry of the current analysisResults.ipDomainCounts
\* and a selected domain an entry of the current analysisResults.domainIPCounts.
C19_SelectionIsCurrent ==
    /\ selectedIP # Null =>
           /\ analysisResults # Null
           /\ selectedIP \in Entries(analysisResults.ipDomainCounts)
    /\ selectedDomain # Null =>
           /\ analysisResults # Null
           /\ selectedDomain \in Entries(analysisResults.domainIPCounts)

\* C20: loads never overlap: an upload starts only while the dashboard is
\* shown and nothing is pending, at most one completion callback is pending,
\* it belongs to the load started last, and fileData and analysisResults
\* change only to the outcome of the load started last.
C20_LoadsNeverOverlap ==
    /\ [](/\ Cardinality(pending) <= 1
          /\ \A load \in pending : load.id = started
          /\ pending # {} => isLoading
          /\ loadedFrom <= started)
    /\ [][/\ started' # started =>
                 /\ pending = {}
                 /\ DashboardShown
                 /\ isLoading'
          /\ (fileData' # fileData \/ analysisResults' # analysisResults) =>
                 /\ loadedFrom' = started
                 /\ pending = {[id |-> started, kind |-> "upload",
                                file |-> [name |-> fileInput, rows |-> fileData'.s]]}
                       \/ started = 1]_vars

C20_Witness ==
    /\ pending # {}
    /\ started = 3
    /\ isLoading
    /\ loadedFrom = 2

\* the spellings of a blocked status in a NextDNS export
BlockedSpellings ==
    { <<"b", "l", "o", "c", "k", "e", "d">>,
      <<"B", "l", "o", "c", "k", "e", "d">>,
      <<"B", "L", "O", "C", "K", "E", "D">> }

\* the records of one client address in the record stream
RecordsOf(ip) == SelectSeq(normalizedRecords, LAMBDA r : r.client_ip = ip)

C16_PercentageInRange ==
    /\ blockedPercentage(0, 0).d > 0
    /\ blockedPercentage(0, 0).n = 0
    /\ pc = "done" =>
           \A k \in 1..Len(devices) :
               LET dev == devices[k]
               IN  /\ dev.blocked_percentage.d > 0
                   /\ dev.query_count = Len(RecordsOf(dev.ip))
                   /\ dev.blocked_count <= dev.query_count
                   /\ dev.query_count > 0 =>
                          dev.blocked_percentage.n * dev.query_count
                              = dev.blocked_count * 100 * dev.blocked_percentage.d
                   /\ dev.query_count = 0 => dev.blocked_percentage.n = 0
                   /\ 0 <= dev.blocked_percentage.n
                   /\ dev.blocked_percentage.n <= 100 * dev.blocked_percentage.d

C16_Witness ==
    /\ pc = "done"
    /\ \E k \in 1..Len(devices) :
           /\ devices[k].query_count = 3
           /\ devices[k].blocked_count = 2
           /\ devices[k].blocked_percentage = [n |-> 200, d |-> 3]

\* C21: whenever the dashboard is shown, analysisResults is non-null: a step
\* that clears isLoading either publishes the result of the load started
\* last or sets error.
C21_DashboardHasResults ==
    /\ [](DashboardShown => analysisResults # Null)
    /\ [][(isLoading /\ ~isLoading') =>
              \/ /\ analysisResults' # Null
                 /\ analysisResults' = processData(fileData'.s)
                 /\ loadedFrom' = started
                 /\ error' = error
              \/ /\ Truthy(error')
                 /\ analysisResults' = analysisResults]_vars

C21_Witness ==
    /\ rendered
    /\ DashboardShown
    /\ analysisResults # Null
    /\ loadedFrom = 2
    /\ pending = {}

====
